---- MODULE Spec2Model ----
(***************************************************************************)
(* Order-status assistant (src/app.py): the three-stage verification flow, *)
(* the failed-attempt lockout, the inactivity timeout and the two-factor   *)
(* order lookup.  One step of the model is one interaction of the user     *)
(* with the page: the script main() is executed from the top with the      *)
(* clicked button and the content of the visible text box, and again when  *)
(* it ends in st.rerun().  Time is counted in minutes; every datetime.now()*)
(* of one execution reads the same minute.                                 *)
(***************************************************************************)
EXTENDS Integers, Sequences, FiniteSets, TLC

\* ---------------------------------------------------------------- bounds
MaxTime == 23
MaxRecords == 3
MaxLen == 2

\* ------------------------------------------------------ program constants
MAX_ATTEMPTS == 3
SESSION_TIMEOUT == 15
LOCKOUT_MINUTES == 5
CACHE_TTL == 5
None == -1

\* ---------------------------------------------------------------- strings
\* A string is a sequence of one-character strings.
Upper(c) == IF c = "a" THEN "A" ELSE IF c = "n" THEN "N" ELSE c

str_upper(s) == [i \in 1..Len(s) |-> Upper(s[i])]

RECURSIVE lstrip(_)
lstrip(s) == IF s # <<>> /\ Head(s) = " " THEN lstrip(Tail(s)) ELSE s

RECURSIVE rstrip(_)
rstrip(s) == IF s # <<>> /\ s[Len(s)] = " " THEN rstrip(SubSeq(s, 1, Len(s) - 1)) ELSE s

str_strip(s) == rstrip(lstrip(s))

\* x.strip().upper()
clean(s) == str_upper(str_strip(s))

\* ------------------------------------------------------------ record data
\* A missing cell of the sheet (NaN in the data frame).
NaN == <<"NaN">>

fillna(c) == IF c = NaN THEN <<"N", "/", "A">> ELSE c

Rec(o, a) == [order |-> o, account |-> a]

\* Variant: the account column is stripped but not upper-cased.
normalise_frame_noupper(sh) ==
    [i \in 1..Len(sh) |-> [recid |-> i,
                           order |-> clean(fillna(sh[i].order)),
                           account |-> str_strip(fillna(sh[i].account))]]

\* load_data after the source was read: fillna, then both key columns are
\* stripped and upper-cased; recid is the row's position in the snapshot.
normalise_frame(sh) ==
    [i \in 1..Len(sh) |-> [recid |-> i,
                           order |-> clean(fillna(sh[i].order)),
                           account |-> clean(fillna(sh[i].account))]]

\* df[(df["Sales order"] == o) & (df["Invoice account"] == a)]
rows_both(df, o, a) == SelectSeq(df, LAMBDA r : r.order = o /\ r.account = a)

\* df[df["Sales order"] == o]
rows_order(df, o) == SelectSeq(df, LAMBDA r : r.order = o)

NoResult == [kind |-> "NoLookup", rows |-> <<>>]

\* Variant: an order that exists under another account is reported as
\* not existing.
find_order_details_nocheck(order_id, invoice_account, df) ==
    LET rows == rows_both(df, clean(order_id), clean(invoice_account))
    IN  IF rows = <<>>
        THEN [kind |-> "None", rows |-> <<>>]
        ELSE [kind |-> "Found", rows |-> rows]

find_order_details(order_id, invoice_account, df) ==
    LET order_clean == clean(order_id)
        invoice_clean == clean(invoice_account)
        rows == rows_both(df, order_clean, invoice_clean)
        order_exists == rows_order(df, order_clean)
    IN  IF rows = <<>>
        THEN IF order_exists # <<>>
             THEN [kind |-> "invalid_invoice", rows |-> <<>>]
             ELSE [kind |-> "None", rows |-> <<>>]
        ELSE [kind |-> "Found", rows |-> rows]

\* ------------------------------------------------------------------ state
VARIABLES
    stage, customer_name, order_id, attempts, blocked_until, last_activity,
        \* st.session_state
    now,        \* the clock: the minute of the latest execution of the script
    sheet,      \* the rows the record source currently holds
    cache,      \* the entry of st.cache_data for load_data: [df, at] or NoCache
    rendered,   \* the buttons the latest execution put on the page
    click,      \* the button pressed in the latest interaction
    input,      \* the content of the text box in the latest interaction
    outcome,    \* the message the latest interaction produced
    reached,    \* the latest execution entered the stage chain (line 325)
    result,     \* what find_order_details returned in the latest interaction
    consec,     \* failed lookups since the last success, unblock or back
    before,     \* st.session_state as the latest interaction found it
    kinds,      \* the results of the failed lookups the count is made of
    probes      \* failed lookups since the last success or expired block

vars == <<stage, customer_name, order_id, attempts, blocked_until,
          last_activity, now, sheet, cache, rendered, click, input, outcome,
          reached, result, consec, before, kinds, probes>>

NoCache == [df |-> <<>>, at |-> None]

\* The session as a record, and what one execution of the script shows.
Session == [stage |-> stage, customer_name |-> customer_name,
            order_id |-> order_id, attempts |-> attempts,
            blocked_until |-> blocked_until, last_activity |-> last_activity,
            consec |-> consec]

init_session == [stage |-> "name", customer_name |-> <<>>, order_id |-> <<>>,
                 attempts |-> 0, blocked_until |-> None, last_activity |-> 0,
                 consec |-> 0]

\* The resolved orders the session remembers: st.session_state never gets
\* a key for them, neither in init_session nor after a verified order.
order_history == <<>>

\* What one execution of the script leaves behind.
Page(s, c, oc, rd, res, re, rr, cl) ==
    [s |-> s, cache |-> c, outcome |-> oc, rendered |-> rd, result |-> res,
     reached |-> re, rerun |-> rr, clear |-> cl]

\* Variant: the session times out at exactly SESSION_TIMEOUT minutes.
check_timeout_inclusive(s, t) ==
    IF t - s.last_activity >= SESSION_TIMEOUT
    THEN [timed_out |-> TRUE,
          s |-> [s EXCEPT !.stage = "name", !.customer_name = <<>>,
                          !.order_id = <<>>]]
    ELSE [timed_out |-> FALSE, s |-> [s EXCEPT !.last_activity = t]]

\* Variant: the timeout leaves the customer name in place.
check_timeout_keepname(s, t) ==
    IF t - s.last_activity > SESSION_TIMEOUT
    THEN [timed_out |-> TRUE,
          s |-> [s EXCEPT !.stage = "name", !.order_id = <<>>]]
    ELSE [timed_out |-> FALSE, s |-> [s EXCEPT !.last_activity = t]]

check_timeout(s, t) ==
    IF t - s.last_activity > SESSION_TIMEOUT
    THEN [timed_out |-> TRUE,
          s |-> [s EXCEPT !.stage = "name", !.customer_name = <<>>,
                          !.order_id = <<>>]]
    ELSE [timed_out |-> FALSE, s |-> [s EXCEPT !.last_activity = t]]

\* @st.cache_data(ttl=300): the cached frame is returned while it is younger
\* than the ttl, otherwise the source is read and the frame is normalised.
load_data(c, sh, t) ==
    IF c.at # None /\ t - c.at < CACHE_TTL
    THEN c
    ELSE [df |-> normalise_frame(sh), at |-> t]

\* Variant: the name is stored as typed, without strip().
stage_name_raw(s, c, b, text) ==
    LET rd == {"Refresh", "Confirm"} IN
    IF b = "Confirm"
    THEN IF str_strip(text) = <<>>
         THEN Page(s, c, "NameRejected", rd, NoResult, TRUE, FALSE, FALSE)
         ELSE Page([s EXCEPT !.customer_name = text, !.stage = "order"],
                   c, "NameAccepted", rd, NoResult, TRUE, TRUE, FALSE)
    ELSE Page(s, c, "Form", rd, NoResult, TRUE, FALSE, FALSE)

\* Stage 1 - ask for the name.
stage_name(s, c, b, text) ==
    LET rd == {"Refresh", "Confirm"} IN
    IF b = "Confirm"
    THEN IF str_strip(text) = <<>>
         THEN Page(s, c, "NameRejected", rd, NoResult, TRUE, FALSE, FALSE)
         ELSE Page([s EXCEPT !.customer_name = str_strip(text),
                             !.stage = "order"],
                   c, "NameAccepted", rd, NoResult, TRUE, TRUE, FALSE)
    ELSE Page(s, c, "Form", rd, NoResult, TRUE, FALSE, FALSE)

\* Variant: an order id of blanks only is accepted.
stage_order_blank(s, c, b, text) ==
    LET rd == {"Refresh", "Next", "Restart"} IN
    IF b = "Restart"
    THEN Page([s EXCEPT !.stage = "name", !.order_id = <<>>,
                        !.customer_name = <<>>],
              c, "Restarted", rd, NoResult, TRUE, TRUE, FALSE)
    ELSE IF b = "Next"
    THEN IF text = <<>>
         THEN Page(s, c, "OrderIdRejected", rd, NoResult, TRUE, FALSE, FALSE)
         ELSE Page([s EXCEPT !.order_id = str_strip(text),
                             !.stage = "validate"],
                   c, "OrderIdAccepted", rd, NoResult, TRUE, TRUE, FALSE)
    ELSE Page(s, c, "Form", rd, NoResult, TRUE, FALSE, FALSE)

\* Variant: restart leaves the customer name in place.
stage_order_keepname(s, c, b, text) ==
    LET rd == {"Refresh", "Next", "Restart"} IN
    IF b = "Restart"
    THEN Page([s EXCEPT !.stage = "name", !.order_id = <<>>],
              c, "Restarted", rd, NoResult, TRUE, TRUE, FALSE)
    ELSE IF b = "Next"
    THEN IF str_strip(text) = <<>>
         THEN Page(s, c, "OrderIdRejected", rd, NoResult, TRUE, FALSE, FALSE)
         ELSE Page([s EXCEPT !.order_id = str_strip(text),
                             !.stage = "validate"],
                   c, "OrderIdAccepted", rd, NoResult, TRUE, TRUE, FALSE)
    ELSE Page(s, c, "Form", rd, NoResult, TRUE, FALSE, FALSE)

\* Stage 2 - ask for the order id.
stage_order(s, c, b, text) ==
    LET rd == {"Refresh", "Next", "Restart"} IN
    IF b = "Restart"
    THEN Page([s EXCEPT !.stage = "name", !.order_id = <<>>,
                        !.customer_name = <<>>],
              c, "Restarted", rd, NoResult, TRUE, TRUE, FALSE)
    ELSE IF b = "Next"
    THEN IF str_strip(text) = <<>>
         THEN Page(s, c, "OrderIdRejected", rd, NoResult, TRUE, FALSE, FALSE)
         ELSE Page([s EXCEPT !.order_id = str_strip(text),
                             !.stage = "validate"],
                   c, "OrderIdAccepted", rd, NoResult, TRUE, TRUE, FALSE)
    ELSE Page(s, c, "Form", rd, NoResult, TRUE, FALSE, FALSE)

\* Variant: the session is blocked only once the count exceeds MAX_ATTEMPTS.
failed_attempt_late(s, t) ==
    LET n == s.attempts + 1
        g == IF s.consec < MAX_ATTEMPTS THEN s.consec + 1 ELSE s.consec
    IN  IF n > MAX_ATTEMPTS
        THEN [s EXCEPT !.attempts = n, !.consec = g,
                       !.blocked_until = t + LOCKOUT_MINUTES]
        ELSE [s EXCEPT !.attempts = n, !.consec = g]

\* The two failure branches of the verification (lines 423-440): the count
\* goes up by one and the session is blocked once it reaches MAX_ATTEMPTS.
failed_attempt(s, t) ==
    LET n == s.attempts + 1
        g == IF s.consec < MAX_ATTEMPTS THEN s.consec + 1 ELSE s.consec
    IN  IF n >= MAX_ATTEMPTS
        THEN [s EXCEPT !.attempts = n, !.consec = g,
                       !.blocked_until = t + LOCKOUT_MINUTES]
        ELSE [s EXCEPT !.attempts = n, !.consec = g]

\* Variant: the failure that blocks the session is reported like the others.
failure_message_plain(s, msg) == msg

failure_message(s, msg) ==
    IF s.attempts >= MAX_ATTEMPTS THEN "LockedOut" ELSE msg

\* Variant: the comparison with the end of the block is reversed.
is_blocked_reversed(s, t) == s.blocked_until # None /\ s.blocked_until < t

\* The block check at the top of stage 3 (lines 367-376): TRUE when the
\* execution stops there.
is_blocked(s, t) == s.blocked_until # None /\ t < s.blocked_until

\* Variant: the expired block is cleared but the count is kept.
unblock_count(s) ==
    IF s.blocked_until # None
    THEN [s EXCEPT !.blocked_until = None]
    ELSE s

\* Variant: the expired block resets the count but stays recorded.
unblock_keep(s) ==
    IF s.blocked_until # None
    THEN [s EXCEPT !.attempts = 0, !.consec = 0]
    ELSE s

unblock(s) ==
    IF s.blocked_until # None
    THEN [s EXCEPT !.blocked_until = None, !.attempts = 0, !.consec = 0]
    ELSE s

\* Variant: a verified order also clears the pending order id.
record_success_clear(s) ==
    [s EXCEPT !.attempts = 0, !.consec = 0, !.order_id = <<>>]

\* Variant: a verified order leaves the count as it was.
record_success_keep(s) == [s EXCEPT !.consec = 0]

\* A verified order resets the count (line 413).
record_success(s) == [s EXCEPT !.attempts = 0, !.consec = 0]

\* Variant: an account of blanks only is looked up like any other.
stage_validate_blank(s, c, b, text, t) ==
    IF is_blocked(s, t)
    THEN Page(s, c, "LockedOut", {"Refresh"}, NoResult, TRUE, FALSE, FALSE)
    ELSE
    LET u == unblock(s)
        rd == {"Refresh", "Verify", "Back"}
    IN
    IF b = "Back"
    THEN Page([u EXCEPT !.stage = "order", !.attempts = 0, !.consec = 0],
              c, "Back", rd, NoResult, TRUE, TRUE, FALSE)
    ELSE IF b = "Verify"
    THEN LET res == find_order_details(u.order_id, clean(text), c.df)
         IN  IF res.kind = "Found"
             THEN Page(record_success(u), c,
                       "VerificationSucceeded", rd \cup {"CheckAnother"},
                       res, TRUE, FALSE, FALSE)
             ELSE LET f == failed_attempt(u, t)
                  IN  Page(f, c,
                           failure_message(f, IF res.kind = "invalid_invoice"
                                              THEN "AccountMismatch"
                                              ELSE "OrderNotFound"),
                           rd, res, TRUE, FALSE, FALSE)
    ELSE Page(u, c, "Form", rd, NoResult, TRUE, FALSE, FALSE)

\* Stage 3 - validate with the invoice account.
stage_validate(s, c, b, text, t) ==
    IF is_blocked(s, t)
    THEN Page(s, c, "LockedOut", {"Refresh"}, NoResult, TRUE, FALSE, FALSE)
    ELSE
    LET u == unblock(s)
        rd == {"Refresh", "Verify", "Back"}
    IN
    IF b = "Back"
    THEN Page([u EXCEPT !.stage = "order", !.attempts = 0, !.consec = 0],
              c, "Back", rd, NoResult, TRUE, TRUE, FALSE)
    ELSE IF b = "Verify"
    THEN IF str_strip(text) = <<>>
         THEN Page(u, c, "ValidationError", rd, NoResult, TRUE, FALSE, FALSE)
         ELSE
         LET invoice_clean == clean(text)
             res == find_order_details(u.order_id, invoice_clean, c.df)
         IN  IF res.kind = "Found"
             THEN Page(record_success(u), c,
                       "VerificationSucceeded", rd \cup {"CheckAnother"},
                       res, TRUE, FALSE, FALSE)
             ELSE IF res.kind = "invalid_invoice"
             THEN LET f == failed_attempt(u, t)
                  IN  Page(f, c, failure_message(f, "AccountMismatch"), rd,
                           res, TRUE, FALSE, FALSE)
             ELSE LET f == failed_attempt(u, t)
                  IN  Page(f, c, failure_message(f, "OrderNotFound"), rd,
                           res, TRUE, FALSE, FALSE)
    ELSE Page(u, c, "Form", rd, NoResult, TRUE, FALSE, FALSE)

\* Variant: an empty data frame does not stop the execution.
main_noguard(s, c, sh, b, text, t) ==
    LET ct == check_timeout(s, t) IN
    IF ct.timed_out
    THEN Page(ct.s, c, "SessionTimedOut", {}, NoResult, FALSE, FALSE, FALSE)
    ELSE
    LET c1 == load_data(c, sh, t) IN
    IF b = "Refresh"
    THEN Page(ct.s, c1, "Refreshed", {"Refresh"}, NoResult, FALSE, TRUE, TRUE)
    ELSE IF ct.s.stage = "name" THEN stage_name(ct.s, c1, b, text)
    ELSE IF ct.s.stage = "order" THEN stage_order(ct.s, c1, b, text)
    ELSE stage_validate(ct.s, c1, b, text, t)

\* One execution of the script at minute t with button b pressed.
main(s, c, sh, b, text, t) ==
    LET ct == check_timeout(s, t) IN
    IF ct.timed_out
    THEN Page(ct.s, c, "SessionTimedOut", {}, NoResult, FALSE, FALSE, FALSE)
    ELSE
    LET c1 == load_data(c, sh, t) IN
    IF c1.df = <<>>
    THEN Page(ct.s, c1, "NoData", {}, NoResult, FALSE, FALSE, FALSE)
    ELSE IF b = "Refresh"
    THEN Page(ct.s, c1, "Refreshed", {"Refresh"}, NoResult, FALSE, TRUE, TRUE)
    ELSE IF ct.s.stage = "name" THEN stage_name(ct.s, c1, b, text)
    ELSE IF ct.s.stage = "order" THEN stage_order(ct.s, c1, b, text)
    ELSE stage_validate(ct.s, c1, b, text, t)

\* An interaction: the execution the press starts, and the one st.rerun()
\* starts right after it.
interaction(s, c, sh, b, text, t) ==
    LET p1 == main(s, c, sh, b, text, t) IN
    IF p1.rerun
    THEN LET p2 == main(p1.s, IF p1.clear THEN NoCache ELSE p1.cache, sh,
                        "none", <<>>, t)
         IN  [p2 EXCEPT !.outcome = IF p2.outcome = "Form" THEN p1.outcome
                                    ELSE p2.outcome,
                        !.reached = p1.reached]
    ELSE p1

\* ------------------------------------------------------------ inputs
\* The minutes between two interactions: none, the length of a block (and
\* of the cache entry's life), the session timeout and one minute more.
Steps == {0, 5, 15, 16}

NameInputs == {<<>>, <<" ">>, <<" ", "a">>, <<"a", "n">>}

OrderInputs == {<<" ">>, <<"a", " ">>, <<"a", "n">>}

AccountInputs == {<<" ">>, <<"n">>, <<" ", "a">>}

Sheets == {<<>>,
           <<Rec(<<" ", "a">>, <<"n", " ">>), Rec(<<"n">>, <<"a">>),
             Rec(<<"A">>, <<"N">>)>>,
           <<Rec(<<"N">>, <<"n">>)>>}

\* ------------------------------------------------------------ actions
\* The session after the first execution of the script, at minute 0:
\* init_session() creates the state and main() runs on it.
Init ==
    /\ now = 0
    /\ sheet \in Sheets
    /\ click = "none"
    /\ input = <<>>
    /\ before = init_session
    /\ kinds = {}
    /\ probes = 0
    /\ \E p \in {interaction(init_session, NoCache, sheet, "none", <<>>, 0)} :
        /\ stage = p.s.stage
        /\ customer_name = p.s.customer_name
        /\ order_id = p.s.order_id
        /\ attempts = p.s.attempts
        /\ blocked_until = p.s.blocked_until
        /\ last_activity = p.s.last_activity
        /\ consec = p.s.consec
        /\ cache = p.cache
        /\ rendered = p.rendered
        /\ outcome = p.outcome
        /\ reached = p.reached
        /\ result = p.result

\* The failed lookups a session has made since its last verified order or
\* its last expired block: n is the count so far, bu the block before the
\* interaction and p what the interaction left.
count_probe(n, bu, p) ==
    LET base == IF bu # None /\ p.s.blocked_until = None THEN 0 ELSE n
    IN  IF p.result.kind \in {"invalid_invoice", "None"}
        THEN IF base <= MAX_ATTEMPTS THEN base + 1 ELSE base
        ELSE IF p.result.kind = "Found" THEN 0
        ELSE base

\* The results of the failed lookups that make up the current count.
count_kinds(ks, bu, p) ==
    LET base == IF bu # None /\ p.s.blocked_until = None THEN {} ELSE ks
    IN  IF p.s.attempts = 0 THEN {}
        ELSE IF p.result.kind \in {"invalid_invoice", "None"}
        THEN base \cup {p.result.kind}
        ELSE base

\* The user presses b (or just makes the page run again, b = "none") dt
\* minutes after the previous interaction, with text in the text box.
Press(b, text, dt) ==
    /\ b = "none" \/ b \in rendered
    /\ now + dt <= MaxTime
    /\ \E p \in {interaction(Session, cache, sheet, b, text, now + dt)} :
        /\ stage' = p.s.stage
        /\ customer_name' = p.s.customer_name
        /\ order_id' = p.s.order_id
        /\ attempts' = p.s.attempts
        /\ blocked_until' = p.s.blocked_until
        /\ last_activity' = p.s.last_activity
        /\ consec' = p.s.consec
        /\ cache' = p.cache
        /\ rendered' = p.rendered
        /\ outcome' = p.outcome
        /\ reached' = p.reached
        /\ result' = p.result
        /\ probes' = count_probe(probes, blocked_until, p)
        /\ kinds' = count_kinds(kinds, blocked_until, p)
    /\ now' = now + dt
    /\ click' = b
    /\ input' = text
    /\ before' = Session
    /\ UNCHANGED sheet

Run == \E dt \in Steps : Press("none", <<>>, dt)

ConfirmName == \E text \in NameInputs, dt \in Steps : Press("Confirm", text, dt)

SubmitOrderId == \E text \in OrderInputs, dt \in Steps : Press("Next", text, dt)

Restart == \E dt \in Steps : Press("Restart", <<>>, dt)

Verify == \E text \in AccountInputs, dt \in Steps : Press("Verify", text, dt)

Back == \E dt \in Steps : Press("Back", <<>>, dt)

CheckAnother == \E dt \in Steps : Press("CheckAnother", <<>>, dt)

RefreshData == \E dt \in Steps : Press("Refresh", <<>>, dt)

\* The record source is edited behind the application.
SheetEdit ==
    /\ \E sh \in Sheets : sh # sheet /\ sheet' = sh
    /\ UNCHANGED <<stage, customer_name, order_id, attempts, blocked_until,
                   last_activity, now, cache, rendered, click, input,
                   outcome, reached, result, consec, before, kinds,
                   probes>>

Next ==
    \/ Run
    \/ ConfirmName
    \/ SubmitOrderId
    \/ Restart
    \/ Verify
    \/ Back
    \/ CheckAnother
    \/ RefreshData
    \/ SheetEdit

Spec == Init /\ [][Next]_vars

\* ------------------------------------------- the lookup over all inputs
BSeq(S, n) == UNION {[1..k -> S] : k \in 0..n}

OrderCells == {<<" ", "a">>, <<"N">>}

AccountCells == {<<"n", " ">>, <<"A">>, NaN}

AllSheets == BSeq({Rec(o, a) : o \in OrderCells, a \in AccountCells}, MaxRecords)

Queries == BSeq({" ", "a", "N"}, MaxLen) \cup {<<"n", "/", "a">>}

InitLookup ==
    /\ stage = "validate"
    /\ customer_name = <<"a">>
    /\ order_id \in Queries
    /\ input \in Queries
    /\ sheet \in AllSheets
    /\ attempts = 0
    /\ blocked_until = None
    /\ last_activity = 0
    /\ consec = 0
    /\ now = 0
    /\ cache = NoCache
    /\ rendered = {}
    /\ click = "none"
    /\ outcome = "none"
    /\ reached = FALSE
    /\ result = NoResult
    /\ before = init_session
    /\ kinds = {}
    /\ probes = 0

\* find_order_details(order_id, input, load_data()) on the current source.
Lookup ==
    /\ click = "none"
    /\ cache' = load_data(cache, sheet, now)
    /\ result' = find_order_details(order_id, input, cache'.df)
    /\ click' = "lookup"
    /\ UNCHANGED <<stage, customer_name, order_id, attempts, blocked_until,
                   last_activity, now, sheet, rendered, input, outcome,
                   reached, consec, before, kinds, probes>>

NextLookup == Lookup

LookupSpec == InitLookup /\ [][NextLookup]_vars

\* ------------------------------------------------------------ properties
Failed == {"invalid_invoice", "None"}

Locked == before.blocked_until # None /\ now < before.blocked_until

\* C1: MAX_ATTEMPTS consecutive failed verifications (no success, expired
\* block or back in between) block the session until the minute of the last
\* failure plus LOCKOUT_MINUTES, and a verification pressed before that
\* minute is answered with LockedOut without a lookup.
C1_LockoutAfterMaxFailures ==
    /\ (click = "Verify" /\ result.kind \in Failed /\ consec = MAX_ATTEMPTS)
          => (blocked_until # None /\ blocked_until = now + LOCKOUT_MINUTES)
    /\ (click = "Verify" /\ reached /\ Locked)
          => (outcome = "LockedOut" /\ result = NoResult
              /\ blocked_until = before.blocked_until)

C1_Witness ==
    /\ click = "Verify" /\ outcome = "LockedOut" /\ result = NoResult
    /\ before.attempts = MAX_ATTEMPTS
    /\ blocked_until - LOCKOUT_MINUTES <= now /\ now < blocked_until

\* C2: while the session is blocked a verification never looks the order
\* up, never changes the count and leaves the stage at validate, whatever
\* account is typed.
C2_LockedVerifyInert ==
    (click = "Verify" /\ Locked)
        => (result.kind = "NoLookup" /\ attempts = before.attempts
            /\ before.stage = "validate" /\ stage = "validate")

C2_Witness ==
    /\ click = "Verify" /\ Locked /\ outcome = "LockedOut"
    /\ rows_both(cache.df, clean(order_id), clean(input)) # <<>>

\* C3: right after a verification that found the order the count is 0, no
\* block is recorded and the stage is still validate.
C3_SuccessResets ==
    (click = "Verify" /\ result.kind = "Found")
        => (attempts = 0 /\ blocked_until = None /\ stage = "validate")

C3_Witness ==
    /\ click = "Verify" /\ result.kind = "Found"
    /\ before.attempts = MAX_ATTEMPTS /\ before.blocked_until # None

\* C4 as stated: a detected timeout resets the stage to name and clears the
\* name, the order id, the count and the block.
C4_TimeoutClearsAll ==
    (now - before.last_activity > SESSION_TIMEOUT)
        => (outcome = "SessionTimedOut" /\ stage = "name"
            /\ customer_name = <<>> /\ order_id = <<>>
            /\ attempts = 0 /\ blocked_until = None)

\* C4 as amended: a detected timeout resets the stage to name and clears
\* the name and the order id; the count and the block stay as they were.
C4_TimeoutReset ==
    (now - before.last_activity > SESSION_TIMEOUT)
        => (outcome = "SessionTimedOut" /\ stage = "name"
            /\ customer_name = <<>> /\ order_id = <<>>
            /\ attempts = before.attempts
            /\ blocked_until = before.blocked_until)

C4_Witness ==
    /\ outcome = "SessionTimedOut" /\ before.stage = "validate"
    /\ before.customer_name # <<>> /\ before.order_id # <<>>
    /\ before.attempts > 0 /\ stage = "name"

\* C5: after a timeout the next interaction within SESSION_TIMEOUT minutes
\* is not reported as timed out again, and a valid name confirmed in it
\* moves the stage to order.
C5_TimedOutRecoverable ==
    [][(outcome = "SessionTimedOut" /\ sheet' = sheet
        /\ now' - now <= SESSION_TIMEOUT)
         => (outcome' # "SessionTimedOut"
             /\ ((click' = "Confirm" /\ str_strip(input') # <<>>)
                    => stage' = "order"))]_vars

\* C6: for every snapshot and non-empty order id and account id the lookup
\* returns Found with exactly the rows whose two keys equal the normalised
\* inputs, in snapshot order, when there is such a row; otherwise
\* invalid_invoice exactly when some row has the order id; otherwise None.
C6_LookupTriState ==
    LET df == cache.df
        o == clean(order_id)
        a == clean(input)
        both == {i \in 1..Len(df) : df[i].order = o /\ df[i].account = a}
        some == {i \in 1..Len(df) : df[i].order = o}
        rows == result.rows
    IN  (click = "lookup" /\ o # <<>> /\ a # <<>>)
            => IF both # {}
               THEN /\ result.kind = "Found"
                    /\ Len(rows) = Cardinality(both)
                    /\ \A k \in 1..Len(rows) :
                          /\ rows[k].recid \in both
                          /\ rows[k] = df[rows[k].recid]
                    /\ \A k \in 1..(Len(rows) - 1) :
                          rows[k].recid < rows[k + 1].recid
               ELSE IF some # {}
               THEN result = [kind |-> "invalid_invoice", rows |-> <<>>]
               ELSE result = [kind |-> "None", rows |-> <<>>]

C6_Witness ==
    /\ click = "lookup" /\ result.kind = "Found" /\ Len(cache.df) = 3
    /\ Len(result.rows) = 2
    /\ result.rows[1].recid = 1 /\ result.rows[2].recid = 3
    /\ cache.df[2].order = cache.df[1].order

\* C7: the lookup on the typed inputs equals the lookup on their stripped,
\* upper-cased forms, and a typed pair that differs from the keys of a row
\* of the source only by letter case or surrounding blanks finds that row.
C7_LookupCaseBlankInsensitive ==
    (click = "lookup")
        => /\ result = find_order_details(clean(order_id), clean(input),
                                          cache.df)
           /\ \A i \in 1..Len(sheet) :
                 (/\ sheet[i].order # NaN /\ sheet[i].account # NaN
                  /\ str_upper(str_strip(sheet[i].order))
                        = str_upper(str_strip(order_id))
                  /\ str_upper(str_strip(sheet[i].account))
                        = str_upper(str_strip(input)))
                    => (/\ result.kind = "Found"
                        /\ \E k \in 1..Len(result.rows) :
                              result.rows[k].recid = i)

C7_Witness ==
    /\ click = "lookup" /\ result.kind = "Found"
    /\ order_id # clean(order_id) /\ input # clean(input)
    /\ sheet[result.rows[1].recid].order # result.rows[1].order
    /\ sheet[result.rows[1].recid].account # result.rows[1].account
    /\ sheet[result.rows[1].recid].account # NaN

\* C8 as stated: in stage name a confirmed name of fewer than 2 characters
\* (after strip) is rejected and changes nothing; a longer one is stored
\* and moves the stage to order.
C8_NameMinTwo ==
    (click = "Confirm" /\ reached /\ before.stage = "name")
        => IF Len(str_strip(input)) < 2
           THEN /\ outcome = "NameRejected" /\ stage = "name"
                /\ customer_name = before.customer_name
           ELSE /\ customer_name = str_strip(input) /\ stage = "order"

\* C8 as amended: in stage name a confirmed name that is empty after strip
\* is rejected and changes nothing; one of 1 or more characters is stored
\* stripped and moves the stage to order.
C8_NameNonEmpty ==
    (click = "Confirm" /\ reached /\ before.stage = "name")
        => IF Len(str_strip(input)) < 1
           THEN /\ outcome = "NameRejected" /\ stage = "name"
                /\ customer_name = before.customer_name
           ELSE /\ customer_name = str_strip(input) /\ stage = "order"

C8_Witness ==
    /\ click = "Confirm" /\ reached /\ before.stage = "name"
    /\ Len(str_strip(input)) = 1 /\ input # str_strip(input)
    /\ customer_name = str_strip(input) /\ stage = "order"

\* C9: in stage order a submitted id that is empty after strip is rejected
\* and leaves stage, name and order id as they were; a non-empty one is
\* stored and moves the stage to validate; the count and the block are not
\* touched.
C9_SubmitOrderId ==
    (click = "Next" /\ reached /\ before.stage = "order")
        => /\ attempts = before.attempts
           /\ blocked_until = before.blocked_until
           /\ customer_name = before.customer_name
           /\ IF Len(str_strip(input)) < 1
              THEN /\ outcome = "OrderIdRejected" /\ stage = "order"
                   /\ order_id = before.order_id
              ELSE /\ order_id = str_strip(input) /\ stage = "validate"

C9_Witness ==
    /\ click = "Next" /\ reached /\ before.stage = "order"
    /\ input # str_strip(input) /\ order_id = str_strip(input)
    /\ before.order_id # order_id /\ stage = "validate"

\* C10 as stated: back pressed in stage validate, blocked or not, moves the
\* stage to order, sets the count to 0 and clears the block.
C10_BackAlways ==
    (click = "Back" /\ reached /\ before.stage = "validate")
        => (stage = "order" /\ attempts = 0 /\ blocked_until = None)

\* C10 as amended: back pressed in stage validate while the session is not
\* blocked moves the stage to order, sets the count to 0 and leaves no
\* block recorded; pressed while blocked it is answered with LockedOut and
\* changes neither stage, count nor block.
C10_BackUnlessBlocked ==
    (click = "Back" /\ reached /\ before.stage = "validate")
        => IF Locked
           THEN /\ outcome = "LockedOut" /\ stage = "validate"
                /\ attempts = before.attempts
                /\ blocked_until = before.blocked_until
           ELSE /\ stage = "order" /\ attempts = 0 /\ blocked_until = None

C10_Witness ==
    /\ click = "Back" /\ reached /\ before.stage = "validate"
    /\ before.blocked_until # None /\ before.attempts = MAX_ATTEMPTS
    /\ ~Locked /\ stage = "order" /\ attempts = 0

\* The count the block check leaves: 0 once an expired block is cleared.
CountAfterCheck ==
    IF before.blocked_until # None /\ ~Locked THEN 0 ELSE before.attempts

\* C11: after a verified order the stage stays validate until Check Another
\* Order is pressed, and that press moves the stage to order and clears
\* the order id.
C11_NextOrder ==
    /\ (click = "Verify" /\ result.kind = "Found") => stage = "validate"
    /\ (click = "CheckAnother" /\ reached)
          => (stage = "order" /\ order_id = <<>>)

\* C12: a mismatch and an unknown order raise the same count by exactly 1;
\* the failure that brings it to MAX_ATTEMPTS, whatever the mixture, blocks
\* the session and is reported as LockedOut, the others under their own
\* message; the stage stays validate.
C12_SharedCounter ==
    (click = "Verify" /\ result.kind \in Failed)
        => /\ attempts = CountAfterCheck + 1
           /\ stage = "validate"
           /\ IF attempts >= MAX_ATTEMPTS
              THEN /\ outcome = "LockedOut"
                   /\ blocked_until = now + LOCKOUT_MINUTES
              ELSE /\ blocked_until = None
                   /\ outcome = IF result.kind = "invalid_invoice"
                                THEN "AccountMismatch" ELSE "OrderNotFound"

C12_Witness ==
    /\ click = "Verify" /\ result.kind = "None" /\ kinds = Failed
    /\ attempts = MAX_ATTEMPTS /\ outcome = "LockedOut"
    /\ blocked_until = now + LOCKOUT_MINUTES

\* C13 as stated: a verification with an account that is empty after strip
\* is rejected with a validation error; no lookup is made and stage, order
\* id, count and block are unchanged.
C13_EmptyAccountNoEffect ==
    (click = "Verify" /\ reached /\ str_strip(input) = <<>>)
        => /\ outcome = "ValidationError" /\ result = NoResult
           /\ stage = before.stage /\ order_id = before.order_id
           /\ attempts = before.attempts
           /\ blocked_until = before.blocked_until

\* C13 as amended: such a verification never makes a lookup, never raises
\* the count and leaves stage and order id unchanged; while the session is
\* blocked it is answered with LockedOut, otherwise with a validation
\* error, and the only change to count and block is the clearing of an
\* expired block by the block check that runs first.
C13_EmptyAccountNotCounted ==
    (click = "Verify" /\ reached /\ str_strip(input) = <<>>)
        => /\ result = NoResult
           /\ stage = before.stage /\ order_id = before.order_id
           /\ IF Locked
              THEN /\ outcome = "LockedOut"
                   /\ attempts = before.attempts
                   /\ blocked_until = before.blocked_until
              ELSE /\ outcome = "ValidationError"
                   /\ attempts = CountAfterCheck
                   /\ blocked_until = None

C13_Witness ==
    /\ click = "Verify" /\ reached /\ str_strip(input) = <<>>
    /\ input # <<>> /\ outcome = "ValidationError"
    /\ before.attempts = 2 /\ attempts = 2

Within == {d \in Steps : d <= SESSION_TIMEOUT}

\* C14: check_timeout called any number of times within SESSION_TIMEOUT
\* minutes of the last activity changes nothing but last_activity, which
\* it sets to the time of the call, and returns false.
C14_TimeoutCheckIdle ==
    /\ \A d1 \in Within, d2 \in Within :
          LET t1 == last_activity + d1
              r1 == check_timeout(Session, t1)
              r2 == check_timeout(r1.s, t1 + d2)
          IN  /\ ~r1.timed_out
              /\ r1.s = [Session EXCEPT !.last_activity = t1]
              /\ ~r2.timed_out
              /\ r2.s = [Session EXCEPT !.last_activity = t1 + d2]
    /\ (now - before.last_activity <= SESSION_TIMEOUT)
          => /\ outcome # "SessionTimedOut"
             /\ last_activity = now
             /\ (click = "none" /\ before.blocked_until = None)
                   => /\ stage = before.stage
                      /\ customer_name = before.customer_name
                      /\ order_id = before.order_id
                      /\ attempts = before.attempts
                      /\ blocked_until = before.blocked_until

C14_Witness ==
    /\ click = "none" /\ reached /\ stage = "validate" /\ attempts > 0
    /\ now - before.last_activity = SESSION_TIMEOUT
    /\ last_activity = now /\ outcome = "Form"

\* C15 as stated: with an empty snapshot the stage chain still handles the
\* interaction, and a verification with a non-empty account finds no order.
C15_EmptySnapshotWorks ==
    (outcome # "SessionTimedOut" /\ cache.df = <<>>)
        => /\ reached
           /\ (click = "Verify" /\ str_strip(input) # <<>> /\ ~Locked)
                 => result.kind = "None"

\* C15 as amended: with an empty snapshot every interaction that is not
\* timed out is answered with the data error; the stage chain is not
\* entered, no lookup is made and the session keeps its stage, name, order
\* id, count and block, with last_activity set to now.
C15_EmptySnapshotAborts ==
    (outcome # "SessionTimedOut" /\ cache.df = <<>>)
        => /\ outcome = "NoData" /\ ~reached /\ result = NoResult
           /\ rendered = {}
           /\ stage = before.stage
           /\ customer_name = before.customer_name
           /\ order_id = before.order_id
           /\ attempts = before.attempts
           /\ blocked_until = before.blocked_until
           /\ last_activity = now

C15_Witness ==
    /\ outcome = "NoData" /\ cache.df = <<>> /\ click = "Verify"
    /\ before.stage = "validate" /\ str_strip(input) # <<>>
    /\ before.attempts > 0 /\ stage = "validate"

\* C16 as stated: a verified order is put at the front of the session's
\* order history, which holds no order id twice and at most 20 entries.
C16_HistoryRecorded ==
    /\ (click = "Verify" /\ result.kind = "Found")
          => /\ Len(order_history) >= 1
             /\ order_history[1] = clean(order_id)
    /\ Len(order_history) <= 20
    /\ \A i, j \in 1..Len(order_history) :
          order_history[i] = order_history[j] => i = j

\* C16 as amended: a verified order is recorded nowhere: the session keeps
\* no order history, and the verification leaves stage, name and order id
\* as they were, sets the count to 0 and last_activity to now.
C16_NothingRecorded ==
    (click = "Verify" /\ result.kind = "Found")
        => /\ order_history = <<>>
           /\ stage = before.stage
           /\ customer_name = before.customer_name
           /\ order_id = before.order_id
           /\ attempts = 0
           /\ last_activity = now

C16_Witness ==
    /\ click = "Verify" /\ result.kind = "Found" /\ Len(result.rows) = 2
    /\ order_id # <<>> /\ order_id = before.order_id
    /\ "CheckAnother" \in rendered

\* C17: whatever the user does between verifications, a session never makes
\* more than MAX_ATTEMPTS failed lookups without a verified order or a
\* block that has run out in between.
C17_ProbesBounded == probes <= MAX_ATTEMPTS

\* C18: a block stays as it is while it runs; the first block check of
\* stage validate at or after its end clears the block and the count
\* together, and the same execution goes on: a verification makes its
\* lookup and a failure is the first of MAX_ATTEMPTS again.
C18_LazyExpiry ==
    /\ (before.blocked_until # None /\ Locked)
          => /\ blocked_until = before.blocked_until
             /\ attempts = before.attempts
    /\ (before.blocked_until # None /\ ~Locked /\ reached
        /\ before.stage = "validate")
          => /\ blocked_until = None
             /\ outcome # "LockedOut"
             /\ IF click = "Verify" /\ str_strip(input) # <<>>
                THEN /\ result.kind # "NoLookup"
                     /\ attempts = IF result.kind \in Failed THEN 1 ELSE 0
                ELSE /\ result = NoResult
                     /\ attempts = 0

C18_Witness ==
    /\ click = "Verify" /\ reached /\ before.blocked_until = now
    /\ before.attempts = MAX_ATTEMPTS
    /\ result.kind \in Failed /\ attempts = 1 /\ blocked_until = None

\* C19: the count is always between 0 and MAX_ATTEMPTS, and a block is
\* recorded only while the count equals MAX_ATTEMPTS.
C19_CountAndBlock ==
    /\ attempts \in 0..MAX_ATTEMPTS
    /\ blocked_until # None => attempts = MAX_ATTEMPTS

C19_Witness ==
    /\ attempts = MAX_ATTEMPTS /\ blocked_until # None
    /\ outcome = "SessionTimedOut" /\ stage = "name"

\* C20: the stage is one of the three; validate implies a name and an order
\* id, order implies a name; after restart or a timeout the stage is name
\* with name and order id empty; a lookup is only made from stage validate
\* with both stored.
C20_StageIdentity ==
    /\ stage \in {"name", "order", "validate"}
    /\ stage = "validate" => (customer_name # <<>> /\ order_id # <<>>)
    /\ stage = "order" => customer_name # <<>>
    /\ ((click = "Restart" /\ reached) \/ outcome = "SessionTimedOut")
          => (stage = "name" /\ customer_name = <<>> /\ order_id = <<>>)
    /\ result.kind # "NoLookup"
          => /\ before.stage = "validate"
             /\ before.customer_name # <<>>
             /\ before.order_id # <<>>

C20_Witness ==
    /\ click = "Restart" /\ reached /\ before.stage = "order"
    /\ before.customer_name # <<>> /\ before.order_id # <<>>
    /\ stage = "name" /\ customer_name = <<>> /\ order_id = <<>>
====
